---- MODULE Spec2Model ----
(***************************************************************************)
(* Arena-indexed binary search tree (src/src/arena.rs).                    *)
(*                                                                         *)
(* The tree is the pair (root_id, arena).  arena is a Vec<Node>; a node    *)
(* refers to its parent and children by index into the arena.  Indices     *)
(* are 0-based as in the source; Option<usize> None is encoded as None.    *)
(* Every arena[i] of the source is bounds-checked here: an index outside   *)
(* the arena is the Rust panic "index out of bounds" (status "panic").     *)
(* A loop that can never leave a cycle of links has status "hang", a       *)
(* recursion that can never leave one has status "overflow".               *)
(*                                                                         *)
(* Spec         any calls of the public operations on a new tree           *)
(* SpecChurn    insert and delete of few values, over a longer history     *)
(* SpecReads    every operation on few values, each read looked at closely *)
(* SpecFromVec  from_vec of a bounded vector, then a traversal             *)
(* SpecTests    the trees of the unit tests, then deletes and traversals   *)
(***************************************************************************)
EXTENDS Integers, Sequences, FiniteSets

VARIABLES root_id, arena, last, created

vars == <<root_id, arena, last, created>>

\* ---------------------------------------------------------------- bounds
\* values are drawn from 1..MaxVal
MaxVal == 4
\* insert of a new value is offered only while the arena holds fewer slots
MaxArena == 4
\* from_vec is given vectors of at most VecMax values of 1..VecMax
VecMax == 5
\* the churn runs insert and delete the values 1..ChurnVal ...
ChurnVal == 3
\* ... in an arena of at most ChurnArena slots
ChurnArena == 6
\* the read runs insert, delete and look up the values 1..ReadVal ...
ReadVal == 3
\* ... in an arena of at most ReadArena slots
ReadArena == 3

Values == 1..MaxVal

\* ---------------------------------------------------------------- data
\* Option::None for the index-valued fields and results
None == -1

\* Node::new
NewNode(idx, val) ==
    [idx |-> idx, val |-> val, parent |-> None, left |-> None, right |-> None]

\* a tree value: the two fields of ArenaTree
Tree(r, a) == [root_id |-> r, arena |-> a]

\* i is a valid index of Vec a
InB(a, i) == i >= 0 /\ i < Len(a)

\* a[i] for a valid index i
At(a, i) == a[i + 1]

\* ArenaTree::size
size(t) == Len(t.arena)

\* ArenaTree::node: push a fresh node, its idx is the length before the push
node(t, val) ==
    [t |-> Tree(t.root_id, Append(t.arena, NewNode(Len(t.arena), val))),
     ret |-> Len(t.arena)]

\* ---------------------------------------------------------------- search_parent
\* result of search_parent: st is "ok", "panic" or "hang"; some = FALSE is None
SpNone(st) == [st |-> st, some |-> FALSE, id |-> None, dir |-> FALSE]

SpSome(id, dir) == [st |-> "ok", some |-> TRUE, id |-> id, dir |-> dir]

\* the loop of search_parent, cur being the index of the current node; fuel
\* is the number of nodes the walk may still visit: the next node depends
\* on the current one alone, so a walk of more than Len(a) nodes repeats a
\* node and never ends
RECURSIVE search_parent_loop(_, _, _, _)
search_parent_loop(a, cur, val, fuel) ==
    IF ~InB(a, cur) THEN SpNone("panic")
    ELSE IF fuel = 0 THEN SpNone("hang")
    ELSE LET n == At(a, cur) IN
         IF val < n.val THEN
             IF n.left = None THEN SpSome(n.idx, TRUE)
             ELSE search_parent_loop(a, n.left, val, fuel - 1)
         ELSE IF val = n.val THEN
             IF n.parent = None THEN SpNone("ok")
             ELSE IF ~InB(a, n.parent) THEN SpNone("panic")
             ELSE SpSome(n.parent, At(a, n.parent).left = n.idx)
         ELSE
             IF n.right = None THEN SpSome(n.idx, FALSE)
             ELSE search_parent_loop(a, n.right, val, fuel - 1)

\* ArenaTree::search_parent
search_parent(t, val) ==
    IF size(t) = 0 THEN SpNone("ok")
    ELSE search_parent_loop(t.arena, t.root_id, val, Len(t.arena))

\* ---------------------------------------------------------------- search
\* result of search: ret is the index or None
SrRes(st, ret) == [st |-> st, ret |-> ret]

\* ArenaTree::search
search(t, val) ==
    LET sp == search_parent(t, val) IN
    IF sp.st # "ok" THEN SrRes(sp.st, None)
    ELSE IF ~sp.some THEN
        IF t.arena # <<>> THEN
            IF ~InB(t.arena, t.root_id) THEN SrRes("panic", None)
            ELSE IF At(t.arena, t.root_id).val = val THEN SrRes("ok", t.root_id)
            ELSE SrRes("ok", None)
        ELSE SrRes("ok", None)
    ELSE IF ~InB(t.arena, sp.id) THEN SrRes("panic", None)
    ELSE IF sp.dir THEN SrRes("ok", At(t.arena, sp.id).left)
    ELSE SrRes("ok", At(t.arena, sp.id).right)

\* ---------------------------------------------------------------- insert
\* result of a mutating operation: the tree afterwards and what it returned
OpRes(st, t, ret) == [st |-> st, t |-> t, ret |-> ret]

\* the index insert returns when the value is found at the root
InsertRootHit(t) == 0

\* ArenaTree::insert
insert(t, val) ==
    LET sp == search_parent(t, val) IN
    IF sp.st # "ok" THEN OpRes(sp.st, t, None)
    ELSE IF ~sp.some THEN
        IF t.arena # <<>> THEN
            IF ~InB(t.arena, t.root_id) THEN OpRes("panic", t, None)
            ELSE IF At(t.arena, t.root_id).val = val THEN OpRes("ok", t, InsertRootHit(t))
            ELSE LET n == node(t, val) IN OpRes("ok", n.t, n.ret)
        ELSE LET n == node(t, val) IN OpRes("ok", n.t, n.ret)
    ELSE IF ~InB(t.arena, sp.id) THEN OpRes("panic", t, None)
    ELSE LET parent == At(t.arena, sp.id) IN
         IF sp.dir /\ parent.left # None THEN OpRes("ok", t, parent.left)
         ELSE IF ~sp.dir /\ parent.right # None THEN OpRes("ok", t, parent.right)
         ELSE LET n  == node(t, val)
                  id == n.ret
                  a1 == [n.t.arena EXCEPT ![id + 1].parent = sp.id]
                  a2 == IF sp.dir THEN [a1 EXCEPT ![sp.id + 1].left = id]
                                  ELSE [a1 EXCEPT ![sp.id + 1].right = id]
              IN OpRes("ok", Tree(t.root_id, a2), id)

\* the loop of from_vec: t.insert(val) for each val of v, in order
RECURSIVE from_vec_loop(_, _)
from_vec_loop(t, v) ==
    IF v = <<>> THEN t ELSE from_vec_loop(insert(t, Head(v)).t, Tail(v))

\* ArenaTree::from_vec
from_vec(v) == from_vec_loop(Tree(0, <<>>), v)


\* ---------------------------------------------------------------- delete
\* result of most_left
MlRes(st, ret) == [st |-> st, ret |-> ret]

\* the loop of most_left; fuel as in search_parent_loop
RECURSIVE most_left_loop(_, _, _)
most_left_loop(a, cur, fuel) ==
    IF ~InB(a, cur) THEN MlRes("panic", None)
    ELSE IF fuel = 0 THEN MlRes("hang", None)
    ELSE LET n == At(a, cur) IN
         IF n.left # None THEN most_left_loop(a, n.left, fuel - 1)
         ELSE MlRes("ok", n.idx)

\* ArenaTree::most_left
most_left(t, id) == most_left_loop(t.arena, id, Len(t.arena))

\* result of one expansion of update_parent!
UpRes(st, t) == [st |-> st, t |-> t]

\* the (None, None) arm of update_parent!: self.arena.clear()
ClearArena(t) == Tree(t.root_id, <<>>)

\* macro update_parent!(parent_id, id, original_id) of delete
update_parent(t, parent_id, id, original_id) ==
    IF parent_id = None /\ id = None THEN UpRes("ok", ClearArena(t))
    ELSE IF parent_id = None THEN UpRes("ok", Tree(id, t.arena))
    ELSE IF ~InB(t.arena, parent_id) THEN UpRes("panic", t)
    ELSE IF At(t.arena, parent_id).left = original_id
         THEN UpRes("ok", Tree(t.root_id, [t.arena EXCEPT ![parent_id + 1].left = id]))
         ELSE UpRes("ok", Tree(t.root_id, [t.arena EXCEPT ![parent_id + 1].right = id]))

\* delete, arm (Some(left_id), Some(right_id)): the node has two children
delete_two(t, id, parent_id, left_id, right_id) ==
    LET ml == most_left(t, right_id) IN
    IF ml.st # "ok" THEN OpRes(ml.st, t, FALSE)
    ELSE LET candidate_id == ml.ret
             u1 == update_parent(t, parent_id, candidate_id, id)
         IN
         IF u1.st # "ok" THEN OpRes(u1.st, u1.t, FALSE)
         ELSE IF ~InB(u1.t.arena, candidate_id) THEN OpRes("panic", u1.t, FALSE)
         ELSE LET candidate == At(u1.t.arena, candidate_id)
                  candidate_right == candidate.right
                  candidate_parent_id ==
                      IF right_id = candidate_id THEN candidate_id
                      ELSE candidate.parent
                  a2 == [u1.t.arena EXCEPT ![candidate_id + 1].right = right_id,
                                           ![candidate_id + 1].left = left_id,
                                           ![candidate_id + 1].parent = parent_id]
                  u2 == update_parent(Tree(u1.t.root_id, a2), candidate_parent_id,
                                      candidate_right, candidate_id)
              IN OpRes(u2.st, u2.t, u2.st = "ok")

\* delete, arms (Some(left_id), None) and (None, Some(right_id)): one child
delete_one(t, id, parent_id, child_id) ==
    LET u1 == update_parent(t, parent_id, child_id, id) IN
    IF u1.st # "ok" THEN OpRes(u1.st, u1.t, FALSE)
    ELSE IF ~InB(u1.t.arena, child_id) THEN OpRes("panic", u1.t, FALSE)
    ELSE OpRes("ok",
               Tree(u1.t.root_id, [u1.t.arena EXCEPT ![child_id + 1].parent = parent_id]),
               TRUE)

\* delete, arm (None, None): a leaf
delete_leaf(t, id, parent_id) ==
    LET u1 == update_parent(t, parent_id, None, id) IN
    OpRes(u1.st, u1.t, u1.st = "ok")

\* ArenaTree::delete
delete(t, val) ==
    LET sr == search(t, val) IN
    IF sr.st # "ok" THEN OpRes(sr.st, t, FALSE)
    ELSE IF sr.ret = None THEN OpRes("ok", t, FALSE)
    ELSE IF ~InB(t.arena, sr.ret) THEN OpRes("panic", t, FALSE)
    ELSE LET id == sr.ret
             cur == At(t.arena, id)
         IN
         IF cur.left = None /\ cur.right = None THEN delete_leaf(t, id, cur.parent)
         ELSE IF cur.left # None /\ cur.right # None
              THEN delete_two(t, id, cur.parent, cur.left, cur.right)
         ELSE IF cur.left # None THEN delete_one(t, id, cur.parent, cur.left)
         ELSE delete_one(t, id, cur.parent, cur.right)

\* ---------------------------------------------------------------- topology
\* the children an in-bounds node links to
Kids(a, i) == {At(a, i).left, At(a, i).right} \ {None}

\* the indices reached from the set S by following left and right links,
\* links that leave the arena included (they are where a walk panics)
RECURSIVE Closure(_, _)
Closure(a, S) ==
    LET more == UNION {Kids(a, i) : i \in {j \in S : InB(a, j)}} IN
    IF more \subseteq S THEN S ELSE Closure(a, S \cup more)

\* the subtree below index i, i included
Subtree(a, i) == IF i = None THEN {} ELSE Closure(a, {i})

\* the nodes reachable from the root of t
Reachable(t) == IF t.arena = <<>> THEN {} ELSE Subtree(t.arena, t.root_id)

\* the root reference and every link reachable from it stay inside the arena
WellLinked(t) == \A i \in Reachable(t) : InB(t.arena, i)

\* the values held by the reachable nodes of t
ValuesOf(t) == {At(t.arena, i).val : i \in {j \in Reachable(t) : InB(t.arena, j)}}

\* the reachable nodes of t that hold val
Holders(t, val) ==
    {i \in Reachable(t) : InB(t.arena, i) /\ At(t.arena, i).val = val}

\* some reachable node is reached again by following links from it
Cyclic(t) ==
    \E i \in Reachable(t) : InB(t.arena, i) /\ i \in Closure(t.arena, Kids(t.arena, i))

\* ---------------------------------------------------------------- traversal
\* enum Traversal
DfsOrders == {"NLR", "LNR", "LRN", "NRL", "RNL", "RLN"}

Orders == DfsOrders \cup {"BFS"}

\* result of a traversal: the path collected so far
TrRes(st, path) == [st |-> st, path |-> path]

\* sequencing of two steps that push to the same path: the second runs only
\* when the first returned
Then(x, y) == IF x.st # "ok" THEN x ELSE TrRes(y.st, x.path \o y.path)

\* invoke_marcos as it would be with the arms of RNL and RLN exchanged
invoke_marcos_exchanged(typ, N, L, R) ==
    CASE typ = "NLR" -> Then(Then(N, L), R)
      [] typ = "LNR" -> Then(Then(L, N), R)
      [] typ = "LRN" -> Then(Then(L, R), N)
      [] typ = "NRL" -> Then(Then(N, R), L)
      [] typ = "RNL" -> Then(Then(R, L), N)
      [] typ = "RLN" -> Then(Then(R, N), L)

\* the match on typ of recursive_traversal_map_in_dfs: invoke_marcos!(a, b, c)
invoke_marcos(typ, N, L, R) ==
    CASE typ = "NLR" -> Then(Then(N, L), R)
      [] typ = "LNR" -> Then(Then(L, N), R)
      [] typ = "LRN" -> Then(Then(L, R), N)
      [] typ = "NRL" -> Then(Then(N, R), L)
      [] typ = "RNL" -> Then(Then(R, N), L)
      [] typ = "RLN" -> Then(Then(R, L), N)

\* ArenaTree::recursive_traversal_map_in_dfs with the identity map; depth is
\* the number of frames still available before a link cycle is certain, and
\* unbounded recursion ends in a stack overflow
RECURSIVE recursive_traversal_map_in_dfs(_, _, _, _)
recursive_traversal_map_in_dfs(a, typ, id, depth) ==
    IF id = None THEN TrRes("ok", <<>>)
    ELSE IF ~InB(a, id) THEN TrRes("panic", <<>>)
    ELSE IF depth = 0 THEN TrRes("overflow", <<>>)
    ELSE LET nd == At(a, id) IN
         invoke_marcos(typ,
             TrRes("ok", <<nd.val>>),
             recursive_traversal_map_in_dfs(a, typ, nd.left, depth - 1),
             recursive_traversal_map_in_dfs(a, typ, nd.right, depth - 1))

\* the two conditional push_back of the bfs loop
PushChildren(q, nd) ==
    q \o (IF nd.left # None THEN <<nd.left>> ELSE <<>>)
      \o (IF nd.right # None THEN <<nd.right>> ELSE <<>>)

\* the loop of traversal_map_in_bfs; debug is cfg(debug_assertions), under
\* which a node seen twice ends the loop
RECURSIVE traversal_map_in_bfs_loop(_, _, _, _, _, _)
traversal_map_in_bfs_loop(a, cur, q, path, set, debug) ==
    IF ~InB(a, cur) THEN TrRes("panic", path)
    ELSE LET nd    == At(a, cur)
             path1 == Append(path, nd.val)
         IN
         IF debug /\ nd.idx \in set THEN TrRes("ok", path1)
         ELSE LET q1 == PushChildren(q, nd) IN
              IF q1 = <<>> THEN TrRes("ok", path1)
              ELSE traversal_map_in_bfs_loop(a, Head(q1), Tail(q1), path1,
                                             set \cup {nd.idx}, debug)

\* ArenaTree::traversal_map_in_bfs.  Without debug_assertions nothing ends
\* the loop on a link cycle: the queue never runs empty and, every link
\* being in bounds, no index panics, so the call never returns.
traversal_map_in_bfs(t, debug) ==
    IF ~debug /\ WellLinked(t) /\ Cyclic(t) THEN TrRes("hang", <<>>)
    ELSE traversal_map_in_bfs_loop(t.arena, t.root_id, <<>>, <<>>, {}, debug)

\* ArenaTree::traversal (traversal_map with the identity map)
traversal(t, typ, debug) ==
    IF t.arena = <<>> THEN TrRes("ok", <<>>)
    ELSE IF typ = "BFS" THEN traversal_map_in_bfs(t, debug)
    ELSE recursive_traversal_map_in_dfs(t.arena, typ, t.root_id, Len(t.arena))

\* ---------------------------------------------------------------- state machine
\* the tree held by the variables
Cur == Tree(root_id, arena)

\* the record of the latest call: its operation, arguments, how it ended
\* (st) and what it returned, with the tree it was called on (pre)
Call(op, val, typ, debug, st, id, ok, dir, path, pre) ==
    [op |-> op, val |-> val, typ |-> typ, debug |-> debug, st |-> st,
     id |-> id, ok |-> ok, dir |-> dir, path |-> path, pre |-> pre]

\* the calls that may change the tree, and the construction
Mutators == {"new", "from_vec", "insert", "delete"}

\* The program runs on while no call has panicked, hung or overflowed.  A
\* read (search, search_parent, size, traversal) changes neither root_id nor
\* arena nor created and its record in last is overwritten by the next
\* call, so every call that may follow a read may follow the state the read
\* was made in: the state graph is explored from there, and the state
\* after a read is kept as a leaf.
Running == last.st = "ok" /\ last.op \in Mutators

\* ArenaTree::default / from_vec before its first insert: empty arena, root_id 0
Init ==
    /\ root_id = 0
    /\ arena = <<>>
    /\ created = [v \in Values |-> None]
    /\ last = Call("new", 0, "", FALSE, "ok", None, FALSE, FALSE, <<>>, Tree(0, <<>>))

\* a call t.insert(val), offered while the arena stays within cap slots
InsertWithin(val, cap) ==
    /\ Running
    /\ LET r == insert(Cur, val) IN
       /\ Len(r.t.arena) <= cap
       /\ root_id' = r.t.root_id
       /\ arena' = r.t.arena
       /\ last' = Call("insert", val, "", FALSE, r.st, r.ret, FALSE, FALSE, <<>>, Cur)
       /\ created' = IF r.st = "ok" /\ (created[val] = None \/ Len(r.t.arena) # Len(arena))
                     THEN [created EXCEPT ![val] = r.ret]
                     ELSE created

\* a call t.insert(val)
Insert(val) == InsertWithin(val, MaxArena)

\* a call t.delete(val)
Delete(val) ==
    /\ Running
    /\ LET r == delete(Cur, val) IN
       /\ root_id' = r.t.root_id
       /\ arena' = r.t.arena
       /\ last' = Call("delete", val, "", FALSE, r.st, None, r.ret, FALSE, <<>>, Cur)
       /\ created' = IF r.st = "ok" /\ r.ret
                     THEN [created EXCEPT ![val] = None]
                     ELSE created

\* a call t.search(val) of a search that used its &mut self to make the
\* node it finds the root
SearchMovingToRoot(val) ==
    /\ Running
    /\ LET r == search(Cur, val) IN
       /\ last' = Call("search", val, "", FALSE, r.st, r.ret, FALSE, FALSE, <<>>, Cur)
       /\ root_id' = IF r.st = "ok" /\ r.ret # None THEN r.ret ELSE root_id
    /\ UNCHANGED <<arena, created>>

\* a call t.search(val)
Search(val) ==
    /\ Running
    /\ LET r == search(Cur, val) IN
       last' = Call("search", val, "", FALSE, r.st, r.ret, FALSE, FALSE, <<>>, Cur)
    /\ UNCHANGED <<root_id, arena, created>>

\* a call t.search_parent(val)
SearchParent(val) ==
    /\ Running
    /\ LET r == search_parent(Cur, val) IN
       last' = Call("search_parent", val, "", FALSE, r.st, r.id, r.some, r.dir, <<>>, Cur)
    /\ UNCHANGED <<root_id, arena, created>>

\* a call t.size()
Size ==
    /\ Running
    /\ last' = Call("size", 0, "", FALSE, "ok", size(Cur), FALSE, FALSE, <<>>, Cur)
    /\ UNCHANGED <<root_id, arena, created>>

\* a call t.traversal(&typ); debug is whether the build has debug_assertions,
\* which only the breadth-first loop reads
Traverse(typ, debug) ==
    /\ Running
    /\ LET r == traversal(Cur, typ, debug) IN
       last' = Call("traversal", 0, typ, debug, r.st, None, FALSE, FALSE, r.path, Cur)
    /\ UNCHANGED <<root_id, arena, created>>

Next ==
    \/ \E val \in Values : Insert(val)
    \/ \E val \in Values : Delete(val)
    \/ \E val \in Values : Search(val)
    \/ \E val \in Values : SearchParent(val)
    \/ Size
    \/ \E typ \in DfsOrders : Traverse(typ, FALSE)
    \/ \E debug \in BOOLEAN : Traverse("BFS", debug)

Spec == Init /\ [][Next]_vars

\* ---------------------------------------------------------------- trees built by from_vec
\* the vectors handed to from_vec: every sequence of at most VecMax values
\* of 1..VecMax, repeated values included
Vecs == UNION {[1..n -> 1..VecMax] : n \in 0..VecMax}

\* the index the first insert of x during from_vec(v) returned, None when
\* x is not in v
FirstInsert(v, x) ==
    LET at == {k \in 1..Len(v) : v[k] = x} IN
    IF at = {} THEN None
    ELSE LET k == CHOOSE k \in at : \A m \in at : k <= m IN
         insert(from_vec(SubSeq(v, 1, k - 1)), x).ret

\* the state after ArenaTree::from_vec(v), values ranging over dom
Built(v, dom) ==
    /\ root_id = from_vec(v).root_id
    /\ arena = from_vec(v).arena
    /\ created = [x \in dom |-> FirstInsert(v, x)]
    /\ last = Call("from_vec", 0, "", FALSE, "ok", None, FALSE, FALSE, <<>>, Tree(0, <<>>))

InitFromVec == \E v \in Vecs : Built(v, 1..VecMax)

NextFromVec ==
    \/ \E typ \in DfsOrders : Traverse(typ, FALSE)
    \/ \E debug \in BOOLEAN : Traverse("BFS", debug)

\* from_vec of a bounded vector, then one traversal
SpecFromVec == InitFromVec /\ [][NextFromVec]_vars

\* ---------------------------------------------------------------- the test trees
\* the vectors of the tests bst_traversal, bst_traversal_complex and bst_delete_*
TestVecs == {<<2, 1, 3>>, <<5, 1, 2, 4, 3>>, <<4, 2, 6, 1, 3, 5, 7>>}

\* the values of the test vectors
TestValues == UNION {{v[k] : k \in 1..Len(v)} : v \in TestVecs}

InitTests == \E v \in TestVecs : Built(v, TestValues)

NextTests ==
    \/ \E val \in TestValues : Delete(val)
    \/ \E debug \in BOOLEAN : Traverse("BFS", debug)

\* a test tree, then any sequence of deletes, traversed breadth-first
SpecTests == InitTests /\ [][NextTests]_vars

\* ---------------------------------------------------------------- churn
\* a call t.insert(val) of the churn
Reinsert(val) == InsertWithin(val, ChurnArena)

NextChurn ==
    \/ \E val \in 1..ChurnVal : Reinsert(val)
    \/ \E val \in 1..ChurnVal : Delete(val)

\* few values inserted and deleted over and over: a longer history of
\* dead slots than Spec reaches
SpecChurn == Init /\ [][NextChurn]_vars

\* ---------------------------------------------------------------- reads
\* a call t.insert(val) of the read runs
InsertSmall(val) == InsertWithin(val, ReadArena)

NextReads ==
    \/ \E val \in 1..ReadVal : InsertSmall(val)
    \/ \E val \in 1..ReadVal : Delete(val)
    \/ \E val \in 1..ReadVal : Search(val)
    \/ \E val \in 1..ReadVal : SearchParent(val)
    \/ Size
    \/ \E typ \in DfsOrders : Traverse(typ, FALSE)
    \/ \E debug \in BOOLEAN : Traverse("BFS", debug)

\* every operation, on few values in a small arena
SpecReads == Init /\ [][NextReads]_vars

\* ---------------------------------------------------------------- claims
\* the latest call was op and returned (no panic, hang or overflow)
Returned(op) == last.op = op /\ last.st = "ok"

\* C1: for any value v in the tree, delete(v) returns true, search(v)
\* right afterwards returns None, and a second delete(v) right afterwards
\* returns false.
C1_DeleteThenAbsent ==
    (last.op = "delete" /\ last.val \in ValuesOf(last.pre)) =>
        /\ last.st = "ok" /\ last.ok
        /\ search(Cur, last.val) = SrRes("ok", None)
        /\ LET again == delete(Cur, last.val) IN again.st = "ok" /\ ~again.ret

\* C2: search(v) returns Some(i), i the index insert(v) returned and the
\* node at i holding v, for every value inserted and not deleted since; it
\* returns None for every value that is not in the tree.
C2_SearchRoundTrip ==
    Returned("search") =>
        /\ created[last.val] # None =>
              /\ last.id = created[last.val]
              /\ InB(arena, last.id) /\ At(arena, last.id).val = last.val
        /\ last.val \notin ValuesOf(Cur) => last.id = None

\* C3: insert(v) of a value already in the tree leaves size() and every
\* node's links unchanged and returns the index of the node that holds v,
\* also when the root is not the node at index 0.
C3_InsertIdempotent ==
    (Returned("insert") /\ last.val \in ValuesOf(last.pre)) =>
        /\ arena = last.pre.arena
        /\ last.id \in Holders(last.pre, last.val)

\* C4: no call indexes the store out of bounds or otherwise fails to
\* return; on an empty tree search returns None, delete returns false and
\* every traversal returns the empty sequence.
C4_Infallible ==
    /\ last.st = "ok"
    /\ (last.op = "search" /\ arena = <<>>) => last.id = None
    /\ (last.op = "delete" /\ last.pre.arena = <<>>) => ~last.ok
    /\ (last.op = "traversal" /\ arena = <<>>) => last.path = <<>>

\* C5: size() never decreases; delete leaves it unchanged, insert adds one
\* when the value is new and nothing otherwise.
C5_AppendOnly ==
    /\ last.op = "delete" => Len(arena) = Len(last.pre.arena)
    /\ last.op = "insert" =>
          Len(arena) = Len(last.pre.arena)
                         + (IF last.val \in ValuesOf(last.pre) THEN 0 ELSE 1)

\* every reachable node has smaller values below its left link and larger
\* values below its right link
Ordered(t) ==
    \A i \in Reachable(t) : InB(t.arena, i) =>
        /\ \A j \in Subtree(t.arena, At(t.arena, i).left) :
               InB(t.arena, j) => At(t.arena, j).val < At(t.arena, i).val
        /\ \A j \in Subtree(t.arena, At(t.arena, i).right) :
               InB(t.arena, j) => At(t.arena, j).val > At(t.arena, i).val

\* the sequence s is strictly increasing
Increasing(s) == \A k \in 1..(Len(s) - 1) : s[k] < s[k + 1]

\* C6: for every node reachable from the root, the values in its left
\* subtree are less and those in its right subtree are greater; the LNR
\* traversal is strictly increasing.
C6_Ordering ==
    /\ Ordered(Cur)
    /\ (Returned("traversal") /\ last.typ = "LNR") => Increasing(last.path)

\* the reachable nodes of t whose left link (side TRUE) or right link
\* (side FALSE) is i
LinkedFrom(t, i, side) ==
    {p \in Reachable(t) :
        InB(t.arena, p) /\ (IF side THEN At(t.arena, p).left ELSE At(t.arena, p).right) = i}

\* the tree after the deletes of the values of vals, in order, from t
RECURSIVE DeleteAll(_, _)
DeleteAll(t, vals) ==
    IF vals = <<>> THEN t ELSE DeleteAll(delete(t, Head(vals)).t, Tail(vals))

\* from [4,2,6,1,3,5,7], the deletes of bst_delete_node_2 with the
\* breadth-first traversal expected after each
DeleteNode2 ==
    LET order  == <<4, 5, 6, 7, 2, 3, 1>>
        expect == << <<5, 2, 6, 1, 3, 7>>, <<6, 2, 7, 1, 3>>, <<7, 2, 1, 3>>,
                     <<2, 1, 3>>, <<3, 1>>, <<1>>, <<>> >>
    IN \A k \in 1..7, debug \in BOOLEAN :
          LET before == DeleteAll(from_vec(<<4, 2, 6, 1, 3, 5, 7>>), SubSeq(order, 1, k - 1))
              d      == delete(before, order[k])
          IN /\ d.st = "ok" /\ d.ret
             /\ traversal(d.t, "BFS", debug) = TrRes("ok", expect[k])

\* C7: delete of a reachable node d with two children puts its in-order
\* successor s (the leftmost node below d's right child) in d's place: s is
\* linked from d's former parent on the same side, or is the root; s takes
\* d's left child; s takes d's right child, or keeps its own right child
\* when s was d's right child; otherwise the left link of s's former parent
\* becomes s's former right child.  From [4,2,6,1,3,5,7] the deletes
\* 4,5,6,7,2,3,1 leave the breadth-first traversals of bst_delete_node_2.
C7_SuccessorPromoted ==
    /\ last.op = "from_vec" => DeleteNode2
    /\ \A d \in Holders(last.pre, last.val) :
          LET a == last.pre.arena
              L == At(a, d).left
              R == At(a, d).right
              s == most_left(last.pre, R).ret
          IN (last.op = "delete" /\ L # None /\ R # None /\ InB(a, R) /\ InB(a, s)) =>
                /\ last.st = "ok" /\ last.ok
                /\ InB(arena, s)
                /\ IF d = last.pre.root_id THEN root_id = s
                   ELSE /\ \A p \in LinkedFrom(last.pre, d, TRUE) : At(arena, p).left = s
                        /\ \A p \in LinkedFrom(last.pre, d, FALSE) : At(arena, p).right = s
                /\ At(arena, s).left = L
                /\ At(arena, s).right = (IF s = R THEN At(a, s).right ELSE R)
                /\ s # R => \A q \in LinkedFrom(last.pre, s, TRUE) \cap Subtree(a, R) :
                               At(arena, q).left = At(a, s).right

\* C9: delete(v) of a value that is not in the tree (held by no reachable
\* node, and not inserted since it was last deleted) returns false and
\* leaves the root reference and every field of every node unchanged.
C9_DeleteAbsent ==
    (last.op = "delete" /\ last.val \notin ValuesOf(last.pre) /\ created[last.val] = None) =>
        /\ last.st = "ok" /\ ~last.ok
        /\ root_id = last.pre.root_id
        /\ arena = last.pre.arena

\* C10: no two nodes reachable from the root hold equal values.
C10_UniqueValues ==
    \A i, j \in Reachable(Cur) :
        (InB(arena, i) /\ InB(arena, j) /\ i # j) => At(arena, i).val # At(arena, j).val

\* ---------------------------------------------------------------- traversal orders
\* the nodes of the subtree at i with their positions: the left (TRUE) and
\* right (FALSE) turns that lead to them from i
RECURSIVE Located(_, _, _)
Located(a, i, turns) ==
    IF i = None \/ ~InB(a, i) THEN {}
    ELSE {<<i, turns>>}
           \cup Located(a, At(a, i).left, Append(turns, "L"))
           \cup Located(a, At(a, i).right, Append(turns, "R"))

\* what the name of a depth-first order spells: the places of N, L and R
Place(typ, x) ==
    LET names == [NLR |-> <<"N", "L", "R">>, LNR |-> <<"L", "N", "R">>,
                  LRN |-> <<"L", "R", "N">>, NRL |-> <<"N", "R", "L">>,
                  RNL |-> <<"R", "N", "L">>, RLN |-> <<"R", "L", "N">>]
    IN CHOOSE k \in 1..3 : names[typ][k] = x

\* the length of the longest common prefix of the turn sequences p and q
Common(p, q) ==
    LET same == {k \in 0..Len(p) : k <= Len(q) /\ SubSeq(p, 1, k) = SubSeq(q, 1, k)}
    IN CHOOSE k \in same : \A m \in same : m <= k

\* the node at p is emitted before the node at q (p # q) in order typ: below
\* their last common ancestor the two are in the parts N, L or R of that
\* ancestor, and the order of the parts decides; breadth-first the
\* shallower node is first and, at equal depth, the one to the left
EmittedBefore(typ, p, q) ==
    LET k    == Common(p, q)
        part(r) == IF Len(r) = k THEN "N" ELSE r[k + 1]
    IN IF typ = "BFS"
       THEN Len(p) < Len(q) \/ (Len(p) = Len(q) /\ p[k + 1] = "L")
       ELSE Place(typ, part(p)) < Place(typ, part(q))

\* the traversal of t in order typ that the order's definition calls for
Expected(t, typ) ==
    LET nodes == IF t.arena = <<>> THEN {} ELSE Located(t.arena, t.root_id, <<>>)
        rank(n) == 1 + Cardinality({m \in nodes : m # n /\ EmittedBefore(typ, m[2], n[2])})
    IN [k \in 1..Cardinality(nodes) |->
            At(t.arena, (CHOOSE n \in nodes : rank(n) = k)[1]).val]

\* C8: for a tree built by from_vec, traversal(order) is the sequence the
\* order defines (each of the six depth-first emission orders applied at
\* every node from the root; level order, left before right, for BFS), and
\* every reachable value appears in it exactly once.
C8_TraversalExact ==
    last.op = "traversal" =>
        /\ last.st = "ok"
        /\ last.path = Expected(Cur, last.typ)
        /\ \A v \in ValuesOf(Cur) :
               Cardinality({k \in 1..Len(last.path) : last.path[k] = v}) = 1

\* a traversal of the tree of bst_traversal_complex in post-order returned
\* what the test expects
C8_Witness ==
    /\ Returned("traversal") /\ last.typ = "LRN"
    /\ Cur = from_vec(<<5, 1, 2, 4, 3>>)
    /\ last.path = <<3, 4, 2, 1, 5>>

\* C11: for all nodes A and B reachable from the root, A's left or right
\* link is B's index exactly when B's parent is A's index, and the root's
\* parent is absent; also after a delete of a node with two children.
C11_ParentChild ==
    LET nodes == {i \in Reachable(Cur) : InB(arena, i)} IN
    /\ \A A, B \in nodes :
          (At(arena, A).left = B \/ At(arena, A).right = B) <=> At(arena, B).parent = A
    /\ (arena # <<>> /\ InB(arena, root_id)) => At(arena, root_id).parent = None

\* the reference set of values: empty at first, insert(v) adds v and
\* delete(v) removes v.  created[v] is an index exactly for the values
\* inserted and not deleted since, as long as every insert returned and
\* every delete of such a value returned true; the latest call is accounted
\* for here whatever it returned.
Reference ==
    LET kept == {v \in DOMAIN created : created[v] # None} IN
    IF last.op = "insert" THEN kept \cup {last.val}
    ELSE IF last.op = "delete" THEN kept \ {last.val}
    ELSE kept

\* C12: the set of values reachable from the root equals the reference set;
\* delete(v) returns true exactly when v was in it, and a delete(v) that
\* returns true removes v and no other value from the reachable values.
C12_ReferenceSet ==
    /\ ValuesOf(Cur) = Reference
    /\ last.op = "delete" => (last.ok <=> last.val \in ValuesOf(last.pre))
    /\ (last.op = "delete" /\ last.ok) => ValuesOf(Cur) = ValuesOf(last.pre) \ {last.val}

\* C13: insert into an empty store, be it new or emptied by deletes, makes
\* the new node the root: the root reference is the new node's index and
\* the node has no parent.
C13_InsertIntoEmpty ==
    (Returned("insert") /\ last.pre.arena = <<>>) =>
        /\ root_id = last.id
        /\ InB(arena, last.id)
        /\ At(arena, last.id).val = last.val
        /\ At(arena, last.id).parent = None

\* every node of the store sits at the slot of its idx field
SlotIsIndex == \A i \in 1..Len(arena) : arena[i].idx = i - 1

\* an insert or delete of another value leaves the index of the node that
\* holds v as it was, for every value v in the tree before and after
IndexKept ==
    (last.op \in {"insert", "delete"} /\ last.st = "ok") =>
        \A v \in (ValuesOf(last.pre) \cap ValuesOf(Cur)) \ {last.val} :
            Holders(last.pre, v) = Holders(Cur, v)

\* an insert that creates a node gives it an index no node had, neither in
\* the store the insert is called on nor in the store of the call before
IndexFresh ==
    (last'.op = "insert" /\ Len(arena') > Len(arena)) =>
        /\ last'.id >= Len(arena)
        /\ last'.id >= Len(last.pre.arena)

\* C14: every node sits at the slot equal to its index field; the index of
\* the node of a value v is the same before and after an insert or delete
\* of a different value; no index is ever assigned to a second node.
C14_IndexStability == [](SlotIsIndex /\ IndexKept) /\ [][IndexFresh]_vars

\* the nodes on the search path of val in t from node cur on: left where
\* val is less, right where it is greater, until val or a missing child is
\* met, over at most n nodes
RECURSIVE SearchPath(_, _, _, _)
SearchPath(t, cur, val, n) ==
    IF n = 0 \/ ~InB(t.arena, cur) THEN <<>>
    ELSE LET nd   == At(t.arena, cur)
             next == IF val < nd.val THEN nd.left
                     ELSE IF val > nd.val THEN nd.right ELSE None
         IN <<cur>> \o (IF next = None THEN <<>> ELSE SearchPath(t, next, val, n - 1))

\* C15: search_parent(v) returns None exactly when the store is empty or
\* the root holds v; for v held by a node N other than the root it returns
\* (p, onLeft), p the node whose left or right link points to N and onLeft
\* whether N is its left child; for v absent from a tree that is not empty
\* it returns (a, side), a the last node of v's search path, which has no
\* child on that side.
C15_LocateContract ==
    Returned("search_parent") =>
        LET v      == last.val
            atRoot == InB(arena, root_id) /\ At(arena, root_id).val = v
            path   == SearchPath(Cur, root_id, v, Len(arena))
        IN /\ ~last.ok <=> (arena = <<>> \/ atRoot)
           /\ \A N \in Holders(Cur, v) \ {root_id} :
                 /\ last.ok
                 /\ last.id \in Reachable(Cur) /\ InB(arena, last.id)
                 /\ N \in Kids(arena, last.id)
                 /\ last.dir <=> At(arena, last.id).left = N
           /\ (arena # <<>> /\ v \notin ValuesOf(Cur)) =>
                 /\ last.ok
                 /\ path # <<>> /\ last.id = path[Len(path)]
                 /\ last.dir <=> v < At(arena, last.id).val
                 /\ (IF last.dir THEN At(arena, last.id).left
                                 ELSE At(arena, last.id).right) = None

\* the left and right links of reachable nodes of t that point to node i
LinksTo(t, i) ==
    {l \in Reachable(t) \X {"left", "right"} :
        InB(t.arena, l[1]) /\ At(t.arena, l[1])[l[2]] = i}

\* the links reachable from the root form a tree: no node reaches itself,
\* and one link leads to every node but the root, to which none leads
IsTree(t) ==
    /\ ~Cyclic(t)
    /\ \A i \in Reachable(t) :
          Cardinality(LinksTo(t, i)) = (IF i = t.root_id THEN 0 ELSE 1)

\* the indices of the nodes in the order the breadth-first loop dequeues
\* them: the loop pushes a value for every node it dequeues, so it is run
\* on the store with every node's value replaced by its index
Dequeued(t, debug) ==
    LET byIdx == [k \in 1..Len(t.arena) |-> [t.arena[k] EXCEPT !.val = t.arena[k].idx]]
    IN traversal(Tree(t.root_id, byIdx), "BFS", debug).path

\* C16: after any inserts and deletes the links reachable from the root
\* form a finite tree without cycles (no node is reached by two paths, none
\* reaches itself); search_parent, most_left and every traversal terminate
\* and the breadth-first traversal dequeues no node twice.
C16_AcyclicTerminates ==
    /\ IsTree(Cur)
    /\ last.st \notin {"hang", "overflow"}
    /\ (Returned("traversal") /\ last.typ = "BFS") =>
          LET d == Dequeued(Cur, last.debug) IN
          \A j, k \in 1..Len(d) : d[j] = d[k] => j = k

\* the insert recorded in last created one node as a leaf below the last
\* node of the search path of its value and changed nothing else
AppendedBelowAnchor ==
    LET pre    == last.pre
        v      == last.val
        path   == SearchPath(pre, pre.root_id, v, Len(pre.arena))
        anchor == path[Len(path)]
        new    == Len(pre.arena)
    IN /\ path # <<>>
       /\ last.id = new
       /\ Len(arena) = new + 1
       /\ At(arena, new) = [NewNode(new, v) EXCEPT !.parent = anchor]
       /\ At(arena, anchor) =
             IF v < At(pre.arena, anchor).val
             THEN [At(pre.arena, anchor) EXCEPT !.left = new]
             ELSE [At(pre.arena, anchor) EXCEPT !.right = new]
       /\ \A i \in (0..(new - 1)) \ {anchor} : At(arena, i) = At(pre.arena, i)
       /\ root_id = pre.root_id

\* C17: insert(v) of a value not in a tree that is not empty (v is held by
\* no reachable node; where the insert does not return, created shows that
\* v was not inserted since its last delete either) appends one
\* node at index size(), without children and with the anchor (the last
\* node of v's search path) as parent, sets the anchor's left link (v less)
\* or right link (v greater) to the new index, and leaves the root
\* reference and every other field of every other node unchanged.
C17_InsertAppendsLeaf ==
    (/\ last.op = "insert" /\ last.pre.arena # <<>>
     /\ last.val \notin ValuesOf(last.pre)
     /\ last.st # "ok" => created[last.val] = None) =>
        /\ last.st = "ok"
        /\ AppendedBelowAnchor

\* the calls that only read the tree
ReadOps == {"search", "search_parent", "size", "traversal"}

\* the call recorded in last, made again on the tree as it is now, ends
\* the same way and returns the same
SameAgain ==
    CASE last.op = "search" ->
            search(Cur, last.val) = SrRes(last.st, last.id)
      [] last.op = "search_parent" ->
            LET r == search_parent(Cur, last.val) IN
            r.st = last.st /\ r.some = last.ok /\ r.id = last.id /\ r.dir = last.dir
      [] last.op = "size" -> size(Cur) = last.id
      [] last.op = "traversal" ->
            traversal(Cur, last.typ, last.debug) = TrRes(last.st, last.path)

====
